---------------------------- MODULE Spec2Model ----------------------------
(***************************************************************************)
(* One conversational turn of CryptoBot (src/CryptoBot.py) behind the      *)
(* respond wrapper of src/crypto_bot_app.py.                               *)
(*                                                                         *)
(* Text.  A Python str is a sequence of lexemes <<kind, payload>>:         *)
(*   <<"tag", <<"open">>>>, <<"tag", <<"close">>>>   <tool_call>, </tool_call>  *)
(*   <<"ws", <<>>>>            one blank                                    *)
(*   <<"p", <<c>>>>            one of the characters { } [ ] : ,           *)
(*   <<"num", digits>>         a run of decimal digits                     *)
(*   <<"word", frags>>         a run of other characters                   *)
(*   <<"str", text>>           a double-quoted literal, text its content   *)
(*   <<"sq", text>>            a single-quoted literal (Python repr)       *)
(* Two adjacent runs (num, word) are one run: Glue and Concat keep texts   *)
(* in that normal form.                                                    *)
(*                                                                         *)
(* Values.  A Python object is a record [t, v]:                            *)
(*   none, bool (v a BOOLEAN), num (v the digits), str (v a text),          *)
(*   list (v a sequence of values), dict (v a sequence of <<key, value>>   *)
(*   in insertion order, key a text).                                      *)
(***************************************************************************)
EXTENDS Integers, Sequences, FiniteSets, TLC

----------------------------------------------------------------------------
(* Lexemes and texts *)

TagOpen == <<"tag", <<"open">>>>

TagClose == <<"tag", <<"close">>>>

WS == <<"ws", <<>>>>

P(c) == <<"p", <<c>>>>

N(digits) == <<"num", digits>>

W(s) == <<"word", <<s>>>>

S(text) == <<"str", text>>

SQ(text) == <<"sq", text>>

\* the text made of the single word s
T(s) == <<W(s)>>

DigitStr == <<"0", "1", "2", "3", "4", "5", "6", "7", "8", "9">>

IsAtom(tok) == tok[1] \in {"num", "word"}

Frags(tok) ==
    IF tok[1] = "num" THEN [i \in 1..Len(tok[2]) |-> DigitStr[tok[2][i] + 1]]
    ELSE tok[2]

\* two adjacent runs of characters are one run
Merge(a, b) ==
    IF a[1] = "num" /\ b[1] = "num" THEN <<"num", a[2] \o b[2]>>
    ELSE <<"word", Frags(a) \o Frags(b)>>

\* tok followed by text
Glue(tok, text) ==
    IF text # <<>> /\ IsAtom(tok) /\ IsAtom(Head(text))
    THEN <<Merge(tok, Head(text))>> \o Tail(text)
    ELSE <<tok>> \o text

\* string concatenation (f-strings, +)
Concat(a, b) ==
    IF a = <<>> THEN b
    ELSE IF b = <<>> THEN a
    ELSE SubSeq(a, 1, Len(a) - 1) \o Glue(a[Len(a)], b)

\* no two adjacent runs, at any depth: the texts a lexer produces
RECURSIVE IsLexed(_)
IsLexed(text) ==
    /\ \A i \in 1..(Len(text) - 1) : ~(IsAtom(text[i]) /\ IsAtom(text[i + 1]))
    /\ \A i \in 1..Len(text) :
          text[i][1] \in {"str", "sq"} => IsLexed(text[i][2])

RECURSIVE HasTag(_)
HasTag(text) ==
    \E i \in 1..Len(text) :
        \/ text[i][1] = "tag"
        \/ text[i][1] \in {"str", "sq"} /\ HasTag(text[i][2])

\* str.strip(): leading and trailing blanks removed
RECURSIVE LStrip(_)
LStrip(text) ==
    IF text # <<>> /\ Head(text)[1] = "ws" THEN LStrip(Tail(text)) ELSE text

RECURSIVE RStrip(_)
RStrip(text) ==
    IF text # <<>> /\ text[Len(text)][1] = "ws"
    THEN RStrip(SubSeq(text, 1, Len(text) - 1))
    ELSE text

PyStrip(text) == RStrip(LStrip(text))

----------------------------------------------------------------------------
(* Python values *)

None == [t |-> "none", v |-> <<>>]

Bool(b) == [t |-> "bool", v |-> b]

Num(digits) == [t |-> "num", v |-> digits]

Str(text) == [t |-> "str", v |-> text]

List(vals) == [t |-> "list", v |-> vals]

Dict(pairs) == [t |-> "dict", v |-> pairs]

\* a value no statement has assigned yet
Unset == [t |-> "unset", v |-> <<>>]

\* bool(value): None, False, 0, "", [] and {} are false
Truthy(val) ==
    CASE val.t = "none" -> FALSE
      [] val.t = "bool" -> val.v
      [] val.t = "num" -> \E i \in 1..Len(val.v) : val.v[i] # 0
      [] OTHER -> val.v # <<>>

HasKey(d, key) == \E i \in 1..Len(d.v) : d.v[i][1] = key

Lookup(d, key) ==
    d.v[CHOOSE i \in 1..Len(d.v) : d.v[i][1] = key][2]

\* d[key] = val on a dict under construction: a repeated key keeps its place
DictSet(pairs, key, val) ==
    IF \E i \in 1..Len(pairs) : pairs[i][1] = key
    THEN [i \in 1..Len(pairs) |->
             IF pairs[i][1] = key THEN <<key, val>> ELSE pairs[i]]
    ELSE Append(pairs, <<key, val>>)

\* str(value) and repr(value)
RECURSIVE Repr(_)
RECURSIVE ReprItems(_)
RECURSIVE ReprPairs(_)
Repr(val) ==
    CASE val.t = "none" -> T("None")
      [] val.t = "bool" -> IF val.v THEN T("True") ELSE T("False")
      [] val.t = "num" -> <<N(val.v)>>
      [] val.t = "str" -> <<SQ(val.v)>>
      [] val.t = "list" -> <<P("[")>> \o ReprItems(val.v) \o <<P("]")>>
      [] val.t = "dict" -> <<P("{")>> \o ReprPairs(val.v) \o <<P("}")>>

ReprItems(vals) ==
    IF vals = <<>> THEN <<>>
    ELSE IF Len(vals) = 1 THEN Repr(vals[1])
    ELSE Repr(vals[1]) \o <<P(","), WS>> \o ReprItems(Tail(vals))

ReprPairs(pairs) ==
    IF pairs = <<>> THEN <<>>
    ELSE LET one == <<SQ(pairs[1][1]), P(":"), WS>> \o Repr(pairs[1][2])
         IN  IF Len(pairs) = 1 THEN one
             ELSE one \o <<P(","), WS>> \o ReprPairs(Tail(pairs))

PyStr(val) == IF val.t = "str" THEN val.v ELSE Repr(val)

----------------------------------------------------------------------------
(* json.loads *)

RECURSIVE SkipWs(_, _)
SkipWs(text, i) ==
    IF i <= Len(text) /\ text[i][1] = "ws" THEN SkipWs(text, i + 1) ELSE i

NoParse == [ok |-> FALSE, val |-> None, next |-> 0]

Parsed(val, next) == [ok |-> TRUE, val |-> val, next |-> next]

\* a JSON number has no leading zero
ValidNumber(digits) == Len(digits) = 1 \/ digits[1] # 0

RECURSIVE ParseValue(_, _)
RECURSIVE ParseMembers(_, _, _)
RECURSIVE ParseElements(_, _, _)
\* the value whose first lexeme is text[i]
ParseValue(text, i) ==
    IF i > Len(text) THEN NoParse
    ELSE LET tok == text[i] IN
         CASE tok[1] = "num" ->
                  IF ValidNumber(tok[2]) THEN Parsed(Num(tok[2]), i + 1)
                  ELSE NoParse
           [] tok[1] = "word" ->
                  IF tok[2] = <<"null">> THEN Parsed(None, i + 1)
                  ELSE IF tok[2] = <<"true">> THEN Parsed(Bool(TRUE), i + 1)
                  ELSE IF tok[2] = <<"false">> THEN Parsed(Bool(FALSE), i + 1)
                  ELSE NoParse
           [] tok[1] = "str" -> Parsed(Str(tok[2]), i + 1)
           [] tok = P("{") ->
                  LET j == SkipWs(text, i + 1) IN
                  IF j <= Len(text) /\ text[j] = P("}")
                  THEN Parsed(Dict(<<>>), j + 1)
                  ELSE ParseMembers(text, j, <<>>)
           [] tok = P("[") ->
                  LET j == SkipWs(text, i + 1) IN
                  IF j <= Len(text) /\ text[j] = P("]")
                  THEN Parsed(List(<<>>), j + 1)
                  ELSE ParseElements(text, j, <<>>)
           [] OTHER -> NoParse

\* "key": value pairs from text[i] on, up to the closing brace
ParseMembers(text, i, acc) ==
    LET c    == SkipWs(text, i + 1)
        r    == ParseValue(text, SkipWs(text, c + 1))
        e    == SkipWs(text, r.next)
        acc2 == DictSet(acc, text[i][2], r.val)
    IN  CASE i > Len(text) \/ text[i][1] # "str" -> NoParse
          [] c > Len(text) \/ text[c] # P(":") -> NoParse
          [] ~r.ok \/ e > Len(text) -> NoParse
          [] text[e] = P("}") -> Parsed(Dict(acc2), e + 1)
          [] text[e] = P(",") -> ParseMembers(text, SkipWs(text, e + 1), acc2)
          [] OTHER -> NoParse

\* values from text[i] on, up to the closing bracket
ParseElements(text, i, acc) ==
    LET r    == ParseValue(text, i)
        e    == SkipWs(text, r.next)
        acc2 == Append(acc, r.val)
    IN  CASE ~r.ok \/ e > Len(text) -> NoParse
          [] text[e] = P("]") -> Parsed(List(acc2), e + 1)
          [] text[e] = P(",") -> ParseElements(text, SkipWs(text, e + 1), acc2)
          [] OTHER -> NoParse

\* json.loads(text): ok is FALSE where it raises json.JSONDecodeError
JsonLoads(text) ==
    LET r == ParseValue(text, SkipWs(text, 1)) IN
    IF r.ok /\ SkipWs(text, r.next) > Len(text)
    THEN [ok |-> TRUE, val |-> r.val]
    ELSE [ok |-> FALSE, val |-> None]

\* json.dumps of a value: what a provider sends for it
RECURSIVE Dumps(_)
RECURSIVE DumpsItems(_)
RECURSIVE DumpsPairs(_)
Dumps(val) ==
    CASE val.t = "none" -> T("null")
      [] val.t = "bool" -> IF val.v THEN T("true") ELSE T("false")
      [] val.t = "num" -> <<N(val.v)>>
      [] val.t = "str" -> <<S(val.v)>>
      [] val.t = "list" -> <<P("[")>> \o DumpsItems(val.v) \o <<P("]")>>
      [] val.t = "dict" -> <<P("{")>> \o DumpsPairs(val.v) \o <<P("}")>>

DumpsItems(vals) ==
    IF vals = <<>> THEN <<>>
    ELSE IF Len(vals) = 1 THEN Dumps(vals[1])
    ELSE Dumps(vals[1]) \o <<P(","), WS>> \o DumpsItems(Tail(vals))

DumpsPairs(pairs) ==
    IF pairs = <<>> THEN <<>>
    ELSE LET one == <<S(pairs[1][1]), P(":"), WS>> \o Dumps(pairs[1][2])
         IN  IF Len(pairs) = 1 THEN one
             ELSE one \o <<P(","), WS>> \o DumpsPairs(Tail(pairs))

----------------------------------------------------------------------------
(* Exceptions and outcomes of calls *)

Exc(type, msg) == [type |-> type, msg |-> msg]

NoExc == Exc("", <<>>)

Return(val) == [kind |-> "return", val |-> val, exc |-> NoExc]

Raise(type, msg) == [kind |-> "raise", val |-> Unset, exc |-> Exc(type, msg)]

\* the classes of the exception types used here; every one is an Exception
Bases(type) ==
    CASE type = "APIError" -> {"APIError", "Exception"}
      [] type = "ConnectionError" ->
             {"ConnectionError", "RequestException", "Exception"}
      [] type = "RequestsJSONDecodeError" ->
             {"RequestsJSONDecodeError", "RequestException", "JSONDecodeError",
              "ValueError", "Exception"}
      [] type = "JSONDecodeError" -> {"JSONDecodeError", "ValueError", "Exception"}
      [] OTHER -> {type, "Exception"}

IsInstance(exc, class) == class \in Bases(exc.type)

\* o, then F on its value unless o raised
Then(o, F(_)) == IF o.kind = "raise" THEN o ELSE F(o.val)

TypeName(val) ==
    CASE val.t = "none" -> "NoneType"
      [] val.t = "num" -> "int"
      [] OTHER -> val.t

\* val[key] for a str key
GetItem(val, key) ==
    CASE val.t = "dict" ->
             IF HasKey(val, key) THEN Return(Lookup(val, key))
             ELSE Raise("KeyError", <<SQ(key)>>)
      [] val.t = "str" -> Raise("TypeError", T("string indices must be integers"))
      [] val.t = "list" ->
             Raise("TypeError", T("list indices must be integers or slices, not str"))
      [] OTHER ->
             Raise("TypeError", <<SQ(T(TypeName(val))), WS, W("object is not subscriptable")>>)

\* val[0].  A JSON object has only str keys, so 0 is never one of them; the
\* first character of a str is kept as its first lexeme.
GetFirst(val) ==
    CASE val.t = "list" ->
             IF val.v # <<>> THEN Return(val.v[1])
             ELSE Raise("IndexError", T("list index out of range"))
      [] val.t = "str" ->
             IF val.v # <<>> THEN Return(Str(<<Head(val.v)>>))
             ELSE Raise("IndexError", T("string index out of range"))
      [] val.t = "dict" -> Raise("KeyError", <<N(<<0>>)>>)
      [] OTHER ->
             Raise("TypeError", <<SQ(T(TypeName(val))), WS, W("object is not subscriptable")>>)

NoAttribute(val, attr) ==
    Raise("AttributeError",
          <<SQ(T(TypeName(val))), WS, W("object has no attribute"), WS, SQ(T(attr))>>)

\* val.strip()
Strip(val) ==
    IF val.t = "str" THEN Return(Str(PyStrip(val.v))) ELSE NoAttribute(val, "strip")

\* val.get(key, default)
Get(val, key, default) ==
    IF val.t = "dict"
    THEN Return(IF HasKey(val, key) THEN Lookup(val, key) ELSE default)
    ELSE NoAttribute(val, "get")

----------------------------------------------------------------------------
(* CryptoBot *)

NotTag(tok) == tok[1] # "tag"

\* adjacent runs joined into one
RECURSIVE Lex(_)
Lex(text) ==
    IF text = <<>> THEN <<>> ELSE Glue(Head(text), Lex(Tail(text)))

Joined(text) ==
    IF \A i \in 1..(Len(text) - 1) : ~(IsAtom(text[i]) /\ IsAtom(text[i + 1]))
    THEN text
    ELSE Lex(text)

\* re.sub(r'</?tool_call>', '', text): every tag goes, inside literals too,
\* and what stood on either side of a tag is now adjacent
RECURSIVE StripTags(_)
StripTags(text) ==
    LET kept == SelectSeq(text, NotTag) IN
    Joined([i \in 1..Len(kept) |->
               IF kept[i][1] \in {"str", "sq"}
               THEN <<kept[i][1], StripTags(kept[i][2])>>
               ELSE kept[i]])

\* variant: the decode failure answers with the fixed error string
OnDecodeError_Fixed(clean_tags) == Str(T("There was some error parsing the Tool's output"))

\* except json.JSONDecodeError: return clean_tags
OnDecodeError(clean_tags) == Str(clean_tags)

\* parse_tool_call_str(tool_call_str).  re.sub is outside the try block and
\* raises TypeError on anything that is not a str.  The last handler
\* (except Exception) needs json.loads to raise something other than
\* JSONDecodeError on a str, which no text here makes it do.
parse_tool_call_str(tool_call_str) ==
    IF tool_call_str.t # "str"
    THEN Raise("TypeError",
               <<W("expected string or bytes-like object, got"), WS,
                 SQ(T(TypeName(tool_call_str)))>>)
    ELSE LET clean_tags     == StripTags(tool_call_str.v)
             tool_call_json == JsonLoads(clean_tags)
         IN  IF tool_call_json.ok THEN Return(tool_call_json.val)
             ELSE Return(OnDecodeError(clean_tags))

\* _make_api_request: post is what requests.post did, a Response (here its
\* text) or an exception
make_api_request(post) ==
    IF post.kind = "return" THEN post
    ELSE IF IsInstance(post.exc, "RequestException")
         THEN Raise("APIError", Concat(T("Failed to make API request: "), post.exc.msg))
    ELSE IF IsInstance(post.exc, "JSONDecodeError")
         THEN Raise("APIError", T("Failed to parse API response"))
    ELSE post

\* response.json(): requests raises its own JSONDecodeError, a
\* RequestException, on a body that is not JSON
ResponseJson(body) ==
    LET r == JsonLoads(body) IN
    IF r.ok THEN Return(r.val)
    ELSE Raise("RequestsJSONDecodeError", T("Expecting value: line 1 column 1 (char 0)"))

\* variant: only an unset key counts as missing, an empty one does not
KeyMissing_OnlyNone(key) == key = None

\* not cmc_api_key
KeyMissing(key) == ~Truthy(key)

\* get_cmc_data(endpoint, params) with CMC_API_KEY = key; get is what
\* requests.get does if it is called.  sent: whether it was called.
get_cmc_data(endpoint, params, key, get) ==
    IF KeyMissing(key)
    THEN [sent |-> FALSE, out |-> Raise("APIError", T("CoinMarketCap API key not found"))]
    ELSE LET r == Then(get, LAMBDA response : ResponseJson(response.v)) IN
         [sent |-> TRUE,
          out  |-> IF r.kind = "raise" /\ IsInstance(r.exc, "RequestException")
                   THEN Raise("APIError",
                              Concat(T("Failed to fetch cryptocurrency data: "), r.exc.msg))
                   ELSE r]

\* the number of most recent history turns sent along
HistoryWindow == 3

\* variant: no window, the whole history is sent
LastTurns_All(turns) == turns

\* history[-3:]
LastTurns(turns) ==
    IF Len(turns) > HistoryWindow
    THEN SubSeq(turns, Len(turns) - HistoryWindow + 1, Len(turns))
    ELSE turns


Message(role, content) == [role |-> role, content |-> content]

\* self.system_prompt
SystemPrompt == T("You are a function calling Ai crypto assistant model.")

\* the system message of the second call
AgentPrompt == T("You are a helpful assistant, providing easily understandable responses")

\* [{"role": role, "content": content} for role, content in turns]: the
\* unpacking raises ValueError on the first turn that is not a pair
TurnMessages(turns) ==
    IF \E i \in 1..Len(turns) : Len(turns[i]) # 2
    THEN LET i == CHOOSE k \in 1..Len(turns) :
                     /\ Len(turns[k]) # 2
                     /\ \A j \in 1..(k - 1) : Len(turns[j]) = 2
         IN  IF Len(turns[i]) > 2
             THEN Raise("ValueError", T("too many values to unpack (expected 2)"))
             ELSE Raise("ValueError", T("not enough values to unpack"))
    ELSE Return(List([i \in 1..Len(turns) |-> Message(turns[i][1], turns[i][2])]))

\* tool_chat_history
ToolChatHistory(query, turns) ==
    Then(TurnMessages(LastTurns(turns)),
         LAMBDA msgs : Return(List(<<Message("system", SystemPrompt)>> \o msgs.v
                                    \o <<Message("user", query)>>)))

\* agent_chat_history
AgentChatHistory(query, turns, tool_result) ==
    Then(TurnMessages(LastTurns(turns)),
         LAMBDA msgs : Return(List(<<Message("system", AgentPrompt)>> \o msgs.v
                                    \o <<Message("assistant", PyStr(tool_result))>>
                                    \o <<Message("user", query)>>)))

\* parse_tool_call_str(response.text)['choices'][0]['message']['content'].strip()
ExtractContent(response) ==
    Then(parse_tool_call_str(response),
         LAMBDA body : Then(GetItem(body, T("choices")),
         LAMBDA choices : Then(GetFirst(choices),
         LAMBDA choice : Then(GetItem(choice, T("message")),
         LAMBDA message : Then(GetItem(message, T("content")),
         LAMBDA content : Strip(content))))))

\* json.loads(content), None where it raises JSONDecodeError
DecodeContent(content) ==
    LET r == JsonLoads(content.v) IN IF r.ok THEN r.val ELSE None

ToolName == Str(T("get_cmc_data"))

\* variant: any tool name is dispatched to get_cmc_data
NameMatches_Any(name) == TRUE

\* parsed_output_2.get("name") == "get_cmc_data"
NameMatches(name) == name = ToolName

\* variant: the params of the invocation are dropped
ParamsOf_Dropped(function_arguments) ==
    Then(Get(function_arguments, T("params"), Dict(<<>>)), LAMBDA given : Return(Dict(<<>>)))

\* function_arguments.get("params", {})
ParamsOf(function_arguments) == Get(function_arguments, T("params"), Dict(<<>>))

\* cmc_result = parsed_output_2 if isinstance(parsed_output_2, str)
\*              else str(parsed_output_2)
Passthrough(parsed) == Str(PyStr(parsed))

Plan(kind, endpoint, params, out) ==
    [kind |-> kind, endpoint |-> endpoint, params |-> params, out |-> out]

\* "Handle the parsed output": what the turn does with parsed_output_2, up
\* to the call of get_cmc_data
ToolPlan(parsed) ==
    LET passthrough == Plan("result", Unset, Unset, Return(Passthrough(parsed))) IN
    IF ~Truthy(parsed) THEN passthrough
    ELSE LET name == Get(parsed, T("name"), None) IN
         IF name.kind = "raise" THEN Plan("raise", Unset, Unset, name)
         ELSE IF ~NameMatches(name.val) THEN passthrough
         ELSE LET function_arguments == Get(parsed, T("arguments"), Dict(<<>>)).val
                  endpoint == Get(function_arguments, T("endpoint"), None)
                  params   == ParamsOf(function_arguments)
              IN  IF endpoint.kind = "raise" THEN Plan("raise", Unset, Unset, endpoint)
                  ELSE IF ~Truthy(endpoint.val)
                       THEN Plan("result", Unset, Unset,
                                 Return(Str(T("Endpoint not specified in arguments"))))
                  ELSE Plan("fetch", endpoint.val, params.val, Return(Unset))

\* variant: no handler around get_cmc_data
FetchResult_Uncaught(out) == out

\* except APIError around get_cmc_data
FetchResult(out) ==
    IF out.kind = "raise" /\ IsInstance(out.exc, "APIError")
    THEN Return(Str(Concat(T("Error fetching cryptocurrency data: "), out.exc.msg)))
    ELSE out

ApologyHead == "Sorry, I encountered an error"

\* variant: the outer handler catches APIError only
Boundary_OnlyAPIError(out) ==
    IF out.kind = "raise" /\ IsInstance(out.exc, "APIError")
    THEN Return(Str(Concat(T(ApologyHead),
                           Concat(T(" while processing your query: "), out.exc.msg))))
    ELSE out

\* the try/except Exception of process_user_query
Boundary(out) ==
    IF out.kind = "raise" /\ IsInstance(out.exc, "Exception")
    THEN Return(Str(Concat(T(ApologyHead),
                           Concat(T(" while processing your query: "), out.exc.msg))))
    ELSE out

\* respond(message, history), given what process_user_query did
respond(out) ==
    IF out.kind = "raise" /\ IsInstance(out.exc, "Exception")
    THEN Return(Str(Concat(T(ApologyHead), Concat(T(": "), out.exc.msg))))
    ELSE out

----------------------------------------------------------------------------
(* What the turn is given: the caller's arguments, the environment and   *)
(* the providers' responses                                               *)

\* the longest history the caller passes
MaxHist == 4

\* the longest text parse_tool_call_str is applied to on its own
MaxLen == 3

Pair(key, val) == <<T(key), val>>

ListingsLatest == Str(T("/v1/cryptocurrency/listings/latest"))

QuotesLatest == Str(T("/v1/cryptocurrency/quotes/latest"))

\* the endpoints system_prompt allows
AllowedEndpoints == {ListingsLatest, QuotesLatest}

KeyInfo == Str(T("/v1/key/info"))

LimitParams == Dict(<<Pair("limit", Str(<<N(<<1, 0>>)>>))>>)

QuoteParams == Dict(<<Pair("convert", Str(T("USD"))), Pair("symbol", Str(T("BTC,ETH")))>>)

Invocation(name, arguments) ==
    Dict(<<Pair("name", Str(T(name))), Pair("arguments", arguments)>>)

Arguments(endpoint, params) ==
    Dict(<<Pair("endpoint", endpoint), Pair("params", params)>>)

\* JSON values a model may answer with
ModelValues ==
    { Invocation("get_cmc_data", Arguments(ListingsLatest, LimitParams)),
      Invocation("get_cmc_data", Arguments(QuotesLatest, QuoteParams)),
      Invocation("get_cmc_data", Dict(<<Pair("endpoint", ListingsLatest)>>)),
      Invocation("get_cmc_data", Arguments(KeyInfo, Dict(<<>>))),
      Invocation("get_cmc_data", Arguments(Num(<<5>>), LimitParams)),
      Invocation("get_cmc_data", Dict(<<>>)),
      Invocation("get_cmc_data", Arguments(Str(<<>>), LimitParams)),
      Invocation("get_cmc_data", None),
      Invocation("get_cmc_data", Str(T("/v1/cryptocurrency/listings/latest"))),
      Invocation("get_price", Arguments(ListingsLatest, LimitParams)),
      Dict(<<Pair("name", Str(T("get_cmc_data")))>>),
      Dict(<<Pair("arguments", Arguments(ListingsLatest, LimitParams))>>),
      Dict(<<>>), List(<<>>), List(<<Num(<<5>>)>>),
      Num(<<5>>), Num(<<0>>), Str(T("hi")), Str(<<>>),
      None, Bool(TRUE), Bool(FALSE) }

PlainText == <<W("Bitcoin"), WS, W("is"), WS, W("a"), WS, W("cryptocurrency.")>>

\* the message contents of the chat provider's first answer
ModelContents ==
    { Dumps(val) : val \in ModelValues }
    \cup { <<TagOpen, WS>> \o Dumps(val) \o <<WS, TagClose>> :
               val \in { Invocation("get_cmc_data", Arguments(ListingsLatest, LimitParams)),
                         Invocation("get_cmc_data", Arguments(KeyInfo, Dict(<<>>))),
                         Invocation("get_price", Dict(<<>>)) } }
    \cup { PlainText, <<WS>> \o PlainText \o <<WS>>,
           <<TagOpen>> \o PlainText \o <<TagClose>>, <<>>,
           <<W("Sure:"), WS>>
               \o Dumps(Invocation("get_cmc_data", Arguments(ListingsLatest, LimitParams))) }

TopTenAnswer == <<W("Here"), WS, W("are"), WS, W("the"), WS, W("top"), WS, N(<<1, 0>>)>>

\* the message contents of the chat provider's second answer
AnswerContents ==
    { TopTenAnswer,
      <<WS, TagOpen, W("Bitcoin"), TagClose, WS>>, <<>> }

\* a chat completion whose first choice has this content:
\* {"choices":[{"message":{"role":"assistant","content":"..."}}]}
ChatBody(content) ==
    <<P("{"), S(T("choices")), P(":"), P("["), P("{"), S(T("message")), P(":"),
      P("{"), S(T("role")), P(":"), S(T("assistant")), P(","),
      S(T("content")), P(":"), S(content), P("}"), P("}"), P("]"), P("}")>>

\* bodies of the chat provider that are no completion
BadChatBodies ==
    { <<W("<html>502"), WS, W("Bad"), WS, W("Gateway</html>")>>,
      Dumps(Dict(<<Pair("error", Dict(<<Pair("message", Str(T("Invalid API key")))>>))>>)),
      Dumps(Dict(<<Pair("choices", List(<<>>))>>)),
      Dumps(Dict(<<Pair("choices", List(<<Dict(<<Pair("message",
                        Dict(<<Pair("content", None)>>))>>)>>))>>)),
      Dumps(Dict(<<Pair("choices", List(<<Dict(<<Pair("finish_reason",
                        Str(T("length")))>>)>>))>>)),
      Dumps(Str(T("choices"))),
      Dumps(List(<<Num(<<5>>)>>)) }

\* what requests.post does: a transport failure, another exception, or a
\* response with one of these bodies
PostOutcomes(bodies) ==
    { Raise("ConnectionError", T("Max retries exceeded")),
      Raise("RuntimeError", T("can't start new thread")) }
    \cup { Return(Str(body)) : body \in bodies }

\* what the first chat call may do
SelectOutcomes == PostOutcomes({ChatBody(c) : c \in ModelContents} \cup BadChatBodies)

\* what the second chat call may do
SynthesisOutcomes == PostOutcomes({ChatBody(c) : c \in AnswerContents} \cup BadChatBodies)

\* bodies of the market-data provider
ProviderBodies ==
    { Dumps(Dict(<<Pair("data", List(<<Dict(<<Pair("symbol", Str(T("BTC"))),
                                              Pair("price", Num(<<6, 5>>))>>)>>))>>)),
      Dumps(Dict(<<Pair("status",
                        Dict(<<Pair("error_code", Num(<<4, 0, 0>>)),
                               Pair("error_message", Str(T("Invalid value")))>>))>>)),
      Dumps(Str(T("maintenance"))),
      <<W("<html>503</html>")>> }

\* what requests.get does
GetOutcomes ==
    { Raise("ConnectionError", T("Max retries exceeded")),
      Raise("TypeError", T("cannot unpack non-iterable int object")) }
    \cup { Return(Str(body)) : body \in ProviderBodies }

\* the turns a caller's history is made of: pairs, and one that is no pair
HistoryTurns ==
    { <<"user", T("What is Bitcoin?")>>,
      <<"assistant", T("A cryptocurrency.")>>,
      <<"user", T("price"), T("of ETH")>> }

Histories == UNION { [1..n -> HistoryTurns] : n \in 0..MaxHist }

Queries == { T("Show me the top 10 cryptocurrencies") }

\* what os.getenv("CMC_API_KEY") may give: unset, empty or set
ApiKeys == { None, Str(<<>>), Str(T("cmc-key")) }

----------------------------------------------------------------------------
(* The turn *)

VARIABLES
    pc,                 \* where the turn is
    user_query,         \* respond's message
    history,            \* respond's history
    cmc_api_key,        \* what os.getenv("CMC_API_KEY") gave get_cmc_data
    calls,              \* the requests made so far, in order
    fetched,            \* the calls of get_cmc_data so far, in order
    function_response,  \* the text of the first chat response
    content,            \* the stripped content of its first choice
    parsed_output_2,    \* that content decoded, or None
    cmc_result,         \* the tool result
    final_response,     \* the text of the second chat response
    result,             \* what process_user_query did
    answer,             \* what respond did
    x,                  \* a text given to parse_tool_call_str on its own
    once,               \* parse_tool_call_str(x)
    twice               \* parse_tool_call_str(parse_tool_call_str(x))

vars == <<pc, user_query, history, cmc_api_key, calls, fetched, function_response,
          content, parsed_output_2, cmc_result, final_response, result, answer,
          x, once, twice>>

inputs == <<user_query, history>>

alone == <<x, once, twice>>

NotYet == [kind |-> "none", val |-> Unset, exc |-> NoExc]

TogetherUrl == "https://api.together.xyz/v1/chat/completions"

CmcBaseUrl == "https://pro-api.coinmarketcap.com"

\* requests.post(self.together_api_url, json={"model": ..., "messages": messages})
ChatCall(messages, did) ==
    [url |-> TogetherUrl, messages |-> messages, endpoint |-> Unset,
     params |-> Unset, did |-> did]

\* requests.get(f"{base_url}{endpoint}", headers=headers, params=params)
CmcCall(endpoint, params, did) ==
    [url |-> CmcBaseUrl, messages |-> Unset, endpoint |-> endpoint,
     params |-> params, did |-> did]

\* variant: a failed post is tried a second time
Posted_Retried(log, messages, did) ==
    IF did.kind = "raise"
    THEN log \o <<ChatCall(messages, did), ChatCall(messages, did)>>
    ELSE Append(log, ChatCall(messages, did))

\* requests.post is called once with these messages
Posted(log, messages, did) == Append(log, ChatCall(messages, did))

\* requests.get is called once with this endpoint and these params
Got(log, endpoint, params, did) == Append(log, CmcCall(endpoint, params, did))

Init ==
    /\ pc = "start"
    /\ user_query \in Queries
    /\ history \in Histories
    /\ cmc_api_key = Unset
    /\ calls = <<>>
    /\ fetched = <<>>
    /\ function_response = Unset
    /\ content = Unset
    /\ parsed_output_2 = Unset
    /\ cmc_result = Unset
    /\ final_response = Unset
    /\ result = NotYet
    /\ answer = NotYet
    /\ x = Unset
    /\ once = NotYet
    /\ twice = NotYet

\* process_user_query up to the first chat response
SelectTool ==
    /\ pc = "start"
    /\ LET tool_chat_history == ToolChatHistory(user_query, history) IN
       IF tool_chat_history.kind = "raise"
       THEN /\ result' = Boundary(tool_chat_history)
            /\ pc' = "returned"
            /\ UNCHANGED <<calls, function_response>>
       ELSE \E post \in SelectOutcomes :
                LET response == make_api_request(post) IN
                /\ calls' = Posted(calls, tool_chat_history.val, post)
                /\ IF response.kind = "raise"
                   THEN /\ result' = Boundary(response)
                        /\ pc' = "returned"
                        /\ UNCHANGED function_response
                   ELSE /\ function_response' = response.val
                        /\ pc' = "parse"
                        /\ UNCHANGED result
    /\ UNCHANGED <<inputs, cmc_api_key, fetched, content, parsed_output_2, cmc_result,
                   final_response, answer, alone>>

\* from the first response to parsed_output_2
ParseSelection ==
    /\ pc = "parse"
    /\ LET stripped == ExtractContent(function_response) IN
       IF stripped.kind = "raise"
       THEN /\ result' = Boundary(stripped)
            /\ pc' = "returned"
            /\ UNCHANGED <<content, parsed_output_2>>
       ELSE /\ content' = stripped.val
            /\ parsed_output_2' = DecodeContent(stripped.val)
            /\ pc' = "handle"
            /\ UNCHANGED result
    /\ UNCHANGED <<inputs, cmc_api_key, calls, fetched, function_response, cmc_result,
                   final_response, answer, alone>>

\* "Handle the parsed output"
FetchOrPassthrough ==
    /\ pc = "handle"
    /\ LET plan == ToolPlan(parsed_output_2) IN
       \/ /\ plan.kind = "raise"
          /\ result' = Boundary(plan.out)
          /\ pc' = "returned"
          /\ UNCHANGED <<calls, fetched, cmc_result, cmc_api_key>>
       \/ /\ plan.kind = "result"
          /\ cmc_result' = plan.out.val
          /\ pc' = "synthesize"
          /\ UNCHANGED <<calls, fetched, result, cmc_api_key>>
       \/ /\ plan.kind = "fetch"
          /\ \E env \in ApiKeys, got \in GetOutcomes :
                LET f   == get_cmc_data(plan.endpoint, plan.params, env, got)
                    out == FetchResult(f.out)
                IN  /\ cmc_api_key' = env
                    /\ fetched' = Append(fetched, [endpoint |-> plan.endpoint,
                                                   params |-> plan.params,
                                                   out |-> f.out])
                    /\ calls' = IF f.sent
                                THEN Got(calls, plan.endpoint, plan.params, got)
                                ELSE calls
                    /\ IF out.kind = "raise"
                       THEN /\ result' = Boundary(out)
                            /\ pc' = "returned"
                            /\ UNCHANGED cmc_result
                       ELSE /\ cmc_result' = out.val
                            /\ pc' = "synthesize"
                            /\ UNCHANGED result
    /\ UNCHANGED <<inputs, function_response, content, parsed_output_2,
                   final_response, answer, alone>>

\* the second chat call
Synthesize ==
    /\ pc = "synthesize"
    /\ LET agent_chat_history == AgentChatHistory(user_query, history, cmc_result) IN
       IF agent_chat_history.kind = "raise"
       THEN /\ result' = Boundary(agent_chat_history)
            /\ pc' = "returned"
            /\ UNCHANGED <<calls, final_response>>
       ELSE \E post \in SynthesisOutcomes :
                LET response == make_api_request(post) IN
                /\ calls' = Posted(calls, agent_chat_history.val, post)
                /\ IF response.kind = "raise"
                   THEN /\ result' = Boundary(response)
                        /\ pc' = "returned"
                        /\ UNCHANGED final_response
                   ELSE /\ final_response' = response.val
                        /\ pc' = "extract"
                        /\ UNCHANGED result
    /\ UNCHANGED <<inputs, cmc_api_key, fetched, function_response, content,
                   parsed_output_2, cmc_result, answer, alone>>

\* from the second response to the returned answer
ExtractAnswer ==
    /\ pc = "extract"
    /\ result' = Boundary(Then(ExtractContent(final_response),
                               LAMBDA text : Return(Str(PyStr(text)))))
    /\ pc' = "returned"
    /\ UNCHANGED <<inputs, cmc_api_key, calls, fetched, function_response, content,
                   parsed_output_2, cmc_result, final_response, answer, alone>>

\* respond returns
Respond ==
    /\ pc = "returned"
    /\ answer' = respond(result)
    /\ pc' = "done"
    /\ UNCHANGED <<inputs, cmc_api_key, calls, fetched, function_response, content,
                   parsed_output_2, cmc_result, final_response, result, alone>>

Next ==
    \/ SelectTool
    \/ ParseSelection
    \/ FetchOrPassthrough
    \/ Synthesize
    \/ ExtractAnswer
    \/ Respond

Spec == Init /\ [][Next]_vars

----------------------------------------------------------------------------
(* parse_tool_call_str on its own, applied once and then to its own result *)

\* the lexemes the texts given to it are made of
ParseAlphabet ==
    { TagOpen, TagClose, WS, N(<<5>>), N(<<0>>), W("hi"), W("null"),
      S(<<N(<<5>>)>>), S(T("hi")), S(<<>>), P("{"), P("}"), P("["), P("]") }

ParseTexts ==
    { text \in UNION { [1..n -> ParseAlphabet] : n \in 0..MaxLen } : IsLexed(text) }
    \cup { Dumps(Dict(<<Pair("hi", Num(<<5>>))>>)),
           Dumps(Invocation("get_cmc_data", Arguments(ListingsLatest, LimitParams))),
           <<TagOpen>> \o Dumps(Invocation("get_cmc_data", Dict(<<>>))) \o <<TagClose>>,
           PlainText }

InitParse ==
    /\ pc = "given"
    /\ x \in { Str(text) : text \in ParseTexts }
    /\ once = NotYet
    /\ twice = NotYet
    /\ user_query = <<>>
    /\ history = <<>>
    /\ cmc_api_key = Unset
    /\ calls = <<>>
    /\ fetched = <<>>
    /\ function_response = Unset
    /\ content = Unset
    /\ parsed_output_2 = Unset
    /\ cmc_result = Unset
    /\ final_response = Unset
    /\ result = NotYet
    /\ answer = NotYet

turn == <<user_query, history, cmc_api_key, calls, fetched, function_response,
          content, parsed_output_2, cmc_result, final_response, result, answer>>

ParseOnce ==
    /\ pc = "given"
    /\ once' = parse_tool_call_str(x)
    /\ pc' = "parsed"
    /\ UNCHANGED <<x, twice, turn>>

ParseTwice ==
    /\ pc = "parsed"
    /\ twice' = Then(once, LAMBDA first : parse_tool_call_str(first))
    /\ pc' = "reparsed"
    /\ UNCHANGED <<x, once, turn>>

NextParse == ParseOnce \/ ParseTwice

SpecParse == InitParse /\ [][NextParse]_vars

----------------------------------------------------------------------------
(* Properties *)

Min(a, b) == IF a < b THEN a ELSE b

\* process_user_query has returned or raised
Returned == pc \in {"returned", "done"}

\* the text begins with the apology
IsApology(text) ==
    text # <<>> /\ Head(text)[1] = "word" /\ Head(text)[2][1] = ApologyHead

IsChatCall(call) == call.url = TogetherUrl

NoProviderCall == \A i \in 1..Len(calls) : calls[i].url # CmcBaseUrl

\* the message that precedes the final user message
ToolResultMessage(call) ==
    LET m == call.messages.v IN m[Len(m) - 1]

\* the second chat call was made, after no or one provider call
Synthesized ==
    /\ Len(calls) >= 2
    /\ IsChatCall(calls[Len(calls)])
    /\ calls[Len(calls)].messages.v[1].content = AgentPrompt

\* the synthesis call was made and carried this text as the tool result
SynthesizedWith(text) ==
    /\ Synthesized
    /\ ToolResultMessage(calls[Len(calls)]) = Message("assistant", text)

\* a stage of the turn let an exception through
StageFailed ==
    \/ final_response = Unset
    \/ ExtractContent(final_response).kind = "raise"

\* the content of the first answer, decoded
Decoded == JsonLoads(content.v)

IsDict(val) == val.t = "dict"

Field(val, key, default) == IF HasKey(val, T(key)) THEN Lookup(val, T(key)) ELSE default

\* an object with a name and, if it has arguments, a mapping for them
IsInvocation(val) ==
    /\ IsDict(val)
    /\ HasKey(val, T("name"))
    /\ IsDict(Field(val, "arguments", Dict(<<>>)))

ArgumentsOf(val) == Field(val, "arguments", Dict(<<>>))

EndpointOf(val) == Field(ArgumentsOf(val), "endpoint", None)


\* C1: whatever the query, the history and the outcomes of the external
\* calls, process_user_query returns a str and raises nothing, respond
\* returns a str, and when a stage let an exception through that str is the
\* apology beginning "Sorry, I encountered an error".
C1_AlwaysReturnsAString ==
    /\ Returned =>
          /\ result.kind = "return"
          /\ result.val.t = "str"
          /\ StageFailed => IsApology(result.val.v)
    /\ pc = "done" =>
          /\ answer.kind = "return"
          /\ answer.val.t = "str"
          /\ StageFailed => IsApology(answer.val.v)

\* a turn that got as far as the second chat call, whose body then had no
\* choices, and answered with the apology
C1_Witness ==
    /\ pc = "done"
    /\ Len(calls) = 3
    /\ final_response # Unset
    /\ ExtractContent(final_response).kind = "raise"
    /\ IsApology(answer.val.v)

\* C2: when the content of the first answer decodes to an invocation of
\* get_cmc_data with an allow-listed endpoint, get_cmc_data is called exactly
\* once, with the decoded endpoint and the decoded params ({} if it has none).
C2_FetchGetsParsedArguments ==
    (pc \in {"synthesize", "extract", "returned", "done"} /\ content # Unset) =>
        LET decoded == Decoded IN
        (/\ decoded.ok
         /\ IsInvocation(decoded.val)
         /\ Field(decoded.val, "name", None) = ToolName
         /\ EndpointOf(decoded.val) \in AllowedEndpoints)
        => /\ Len(fetched) = 1
           /\ fetched[1].endpoint = EndpointOf(decoded.val)
           /\ fetched[1].params = Field(ArgumentsOf(decoded.val), "params", Dict(<<>>))

\* the turn of "Show me the top 10 cryptocurrencies": listings/latest with
\* {limit: "10"}, the tag-wrapped invocation included
C2_Witness ==
    /\ pc = "done"
    /\ Len(fetched) = 1
    /\ fetched[1].endpoint = ListingsLatest
    /\ fetched[1].params = LimitParams
    /\ Len(calls) = 3

\* C5: the messages of either chat call are the system message, the last
\* min(3, len(history)) turns of the history in their order, for the second
\* call the tool result, and last the new user query.
C5_HistoryWindow ==
    \A i \in 1..Len(calls) :
        IsChatCall(calls[i]) =>
            LET m == calls[i].messages.v
                k == Min(HistoryWindow, Len(history))
                extra == IF i = 1 THEN 0 ELSE 1
            IN  /\ Len(m) = 1 + k + extra + 1
                /\ m[1].role = "system"
                /\ \A j \in 1..k :
                      LET turn_j == history[Len(history) - k + j]
                      IN  m[1 + j] = Message(turn_j[1], turn_j[2])
                /\ extra = 1 => m[Len(m) - 1].role = "assistant"
                /\ m[Len(m)] = Message("user", user_query)

\* a history longer than the window, and both chat calls made
C5_Witness ==
    /\ Len(history) > HistoryWindow
    /\ history[1] # history[2]
    /\ Len(calls) = 3
    /\ IsChatCall(calls[1])
    /\ IsChatCall(calls[3])

\* C9: the requests of a turn are a prefix of [first chat call, optional
\* provider call, second chat call]: none is repeated, the provider call
\* follows the first chat call, the second chat call comes last, and nothing
\* follows a first chat call that failed.
C9_CallOrder ==
    /\ [i \in 1..Len(calls) |-> calls[i].url]
          \in { <<>>, <<TogetherUrl>>, <<TogetherUrl, CmcBaseUrl>>,
                <<TogetherUrl, TogetherUrl>>,
                <<TogetherUrl, CmcBaseUrl, TogetherUrl>> }
    /\ \A i \in 1..Len(calls) :
          IsChatCall(calls[i]) =>
              calls[i].messages.v[1].content = IF i = 1 THEN SystemPrompt ELSE AgentPrompt
    /\ (Len(calls) >= 1 /\ calls[1].did.kind = "raise") => Len(calls) = 1

\* a first chat call that failed, and the turn over
C9_Witness ==
    /\ pc = "done"
    /\ Len(calls) = 1
    /\ calls[1].did.kind = "raise"
    /\ calls[1].did.exc.type = "ConnectionError"


\* C3: when the content of the first answer is plain text, or JSON that is
\* no invocation object, get_cmc_data is not called, the second chat call is
\* made with the stripped content itself as the tool result, and the turn
\* does not end in the apology for it.
C3_PassthroughKeepsText ==
    (Returned /\ content # Unset) =>
        LET decoded == Decoded IN
        (~decoded.ok \/ ~IsInvocation(decoded.val))
        => /\ fetched = <<>>
           /\ NoProviderCall
           /\ SynthesizedWith(content.v)

\* C4: when the invocation names get_cmc_data with an endpoint outside the
\* allow-list, the fetch step yields an error value and the provider is not
\* called.
C4_EndpointAllowList ==
    content # Unset =>
        LET decoded == Decoded IN
        (/\ decoded.ok
         /\ IsInvocation(decoded.val)
         /\ Field(decoded.val, "name", None) = ToolName
         /\ EndpointOf(decoded.val) \notin AllowedEndpoints)
        => /\ NoProviderCall
           /\ pc \in {"synthesize", "extract"} => cmc_result.t = "str"

\* get_cmc_data was called and found no key
FetchedWithoutKey == fetched # <<>> /\ ~Truthy(cmc_api_key)

MissingKeyMessage == T("CoinMarketCap API key not found")

ErrorMarker == T("Error fetching cryptocurrency data: ")

\* C6 as stated: without the credential get_cmc_data itself hands back a str
\* with an error marker, raises nothing, and sends no request.
C6_FetchReturnsErrorString ==
    FetchedWithoutKey =>
        /\ fetched[1].out.kind = "return"
        /\ fetched[1].out.val.t = "str"
        /\ NoProviderCall

\* C6 amended: without the credential get_cmc_data sends no request and
\* raises APIError("CoinMarketCap API key not found"); the handler around
\* its call turns that into the tool result "Error fetching cryptocurrency
\* data: CoinMarketCap API key not found", and the turn goes on to the
\* second chat call.
C6_MissingKeyBecomesErrorString ==
    FetchedWithoutKey =>
        /\ fetched[1].out = Raise("APIError", MissingKeyMessage)
        /\ NoProviderCall
        /\ cmc_result = Str(Concat(ErrorMarker, MissingKeyMessage))
        /\ pc \in {"synthesize", "extract", "returned", "done"}
        /\ Returned => Synthesized

\* a turn whose key was the empty string, answered by the second chat call
C6_Witness ==
    /\ pc = "done"
    /\ fetched # <<>>
    /\ cmc_api_key = Str(<<>>)
    /\ Len(calls) = 2
    /\ answer.val = Str(TopTenAnswer)

\* what requests.get did in this turn, if it was called
ProviderCallFailed ==
    \E i \in 1..Len(calls) :
        /\ calls[i].url = CmcBaseUrl
        /\ \/ /\ calls[i].did.kind = "raise"
              /\ calls[i].did.exc.type = "ConnectionError"
           \/ /\ calls[i].did.kind = "return"
              /\ ~JsonLoads(calls[i].did.val.v).ok

\* the credential was absent, the transport failed or the body was no JSON
FetchFailed == FetchedWithoutKey \/ (fetched # <<>> /\ ProviderCallFailed)

\* C7: when the fetch stage fails the turn goes on: the second chat call is
\* made with "Error fetching cryptocurrency data: <failure>" as the tool
\* result, and if that call succeeds its stripped content is the answer.
C7_FetchFailureReachesSynthesis ==
    (FetchFailed /\ Returned) =>
        /\ fetched[1].out.kind = "raise"
        /\ SynthesizedWith(Concat(ErrorMarker, fetched[1].out.exc.msg))
        /\ LET last == calls[Len(calls)].did IN
           (last.kind = "return" /\ ExtractContent(last.val).kind = "return") =>
               /\ result = Return(ExtractContent(last.val).val)
               /\ answer # NotYet => answer = result
               /\ ~IsApology(result.val.v)

\* the provider was unreachable and the answer is the second call's content
C7_Witness ==
    /\ pc = "done"
    /\ Len(calls) = 3
    /\ calls[2].did.kind = "raise"
    /\ ToolResultMessage(calls[3]).content
           = Concat(ErrorMarker, Concat(T("Failed to fetch cryptocurrency data: "),
                                        T("Max retries exceeded")))
    /\ answer.val = Str(TopTenAnswer)

\* C8 as stated: for a text x without tags, parsing the result of parsing x
\* is defined and gives the result of parsing x.
C8_ParseIdempotent ==
    (pc = "reparsed" /\ ~HasTag(x.v)) =>
        /\ twice.kind = "return"
        /\ twice.val = once.val

\* C8 amended: for a text x without tags that is not valid JSON, parsing x
\* gives x and parsing that gives x again; for an x that is valid JSON and
\* does not decode to a string, parsing x gives the decoded value and
\* parsing that raises TypeError.
C8_ParseIdempotentOnNonJson ==
    (pc = "reparsed" /\ ~HasTag(x.v)) =>
        LET decoded == JsonLoads(x.v) IN
        /\ ~decoded.ok => (once = Return(x) /\ twice = once)
        /\ (decoded.ok /\ decoded.val.t # "str") =>
               /\ once = Return(decoded.val)
               /\ twice.kind = "raise"
               /\ twice.exc.type = "TypeError"

\* a text of three lexemes that is no JSON, parsed twice
C8_Witness ==
    /\ pc = "reparsed"
    /\ ~HasTag(x.v)
    /\ Len(x.v) = 3
    /\ ~JsonLoads(x.v).ok
    /\ twice = Return(x)

\* C10: the provider is called only for a decoded invocation named
\* get_cmc_data whose arguments carry a non-empty endpoint; an invocation
\* with another name, or with no or an empty endpoint, leads to no provider
\* call and to the second chat call, with str(invocation) or "Endpoint not
\* specified in arguments" as the tool result.
C10_ProviderOnlyForNamedTool ==
    /\ ~NoProviderCall => content # Unset
    /\ content # Unset =>
          LET decoded == Decoded
              name == Field(decoded.val, "name", None)
          IN
          /\ ~NoProviderCall =>
                /\ decoded.ok
                /\ IsInvocation(decoded.val)
                /\ name = ToolName
                /\ Truthy(EndpointOf(decoded.val))
          /\ (Returned /\ decoded.ok /\ IsInvocation(decoded.val)) =>
                /\ name # ToolName =>
                      /\ NoProviderCall
                      /\ fetched = <<>>
                      /\ SynthesizedWith(Repr(decoded.val))
                /\ (name = ToolName /\ ~Truthy(EndpointOf(decoded.val))) =>
                      /\ NoProviderCall
                      /\ fetched = <<>>
                      /\ SynthesizedWith(T("Endpoint not specified in arguments"))

\* an invocation of get_price, passed on as Python prints it
C10_Witness ==
    /\ pc = "done"
    /\ content # Unset
    /\ Decoded.ok
    /\ Decoded.val = Invocation("get_price", Dict(<<>>))
    /\ Len(calls) = 2
    /\ ToolResultMessage(calls[2]).content
           = <<P("{"), SQ(T("name")), P(":"), WS, SQ(T("get_price")), P(","), WS,
               SQ(T("arguments")), P(":"), WS, P("{"), P("}"), P("}")>>

=============================================================================
